---- MODULE Spec2Model ----
(***************************************************************************)
(* Resilient pipeline orchestration layer: the per-domain token-bucket     *)
(* rate limiter (backend/scrapers/rate_limiter.py), the circuit breaker    *)
(* and the retry decorator (backend/core/retry.py).                        *)
(*                                                                         *)
(* Representation of the floats of the code:                               *)
(*   - wall-clock time (time.time()) is counted in ticks, TicksPerSec      *)
(*     ticks to the second;                                                *)
(*   - a rate r (tokens per second) is the integer r * RateDen;            *)
(*   - a token count (float) is an integer number of units,                *)
(*     UnitsPerToken units to the token, so that elapsed * rate is exact:  *)
(*     (ticks / TicksPerSec) * (rate / RateDen) tokens = ticks * rate      *)
(*     units.                                                              *)
(***************************************************************************)
EXTENDS Integers, Sequences, FiniteSets, TLC

VARIABLES
    now,        \* time.time(), in ticks
    heap,       \* the live TokenBucket objects, in the order of their construction
    buckets,    \* RateLimiter.buckets: domain -> position in heap (0: no entry)
    rpc,        \* per caller: "idle", "waiting" (inside wait_for_token, called
                \* by acquire) or "trying" (inside try_acquire, before consume)
    rheld,      \* per caller: the bucket object _get_bucket returned to it
    rcost,      \* per caller: the tokens argument of its acquire
    tried,      \* the value the last try_acquire returned
    \* one TokenBucket and the threads inside consume / wait_for_token
    tb,         \* the bucket: rate, capacity, tokens, last_update
    lock,       \* TokenBucket.lock: the caller that holds it (0: nobody)
    tpc,        \* per caller: "idle", "enter" (at `with self.lock`), "refill",
                \* "check", "take", "exit" (leaving the with block) or "sleep"
    tcost,      \* per caller: the tokens argument
    tblocking,  \* per caller: inside acquire (TRUE) or try_acquire (FALSE)
    tok,        \* per caller: what its consume is about to return
    granted,    \* history: the tokens consume has subtracted, in units
    refilled,   \* history: the tokens _refill has added, in units
    \* CircuitBreaker
    failure_threshold,  \* constructor arguments
    recovery_timeout,
    state,              \* "CLOSED", "OPEN" or "HALF_OPEN"
    failure_count,
    last_failure_time,  \* NoTime for None
    cpc,        \* per caller of call, the statement it is at: "idle", "open"
                \* (state read as OPEN), "half_open" (about to store HALF_OPEN),
                \* "func" (inside the wrapped operation), "on_success"
                \* (failure_count reset), "on_failure" (failure_count read),
                \* "elapsed" (clock read in _should_attempt_reset),
                \* "stamp", "stamped" (clock read), "test", "trip" (the rest
                \* of _on_failure)
    ctmp,       \* per caller: the failure_count that `failure_count += 1` read
    cclk,       \* per caller: what its last time.time() returned, until used
    cout,       \* per caller: what the wrapped operation did in its last call
    cres,       \* per caller: what its last call returned or raised
    consec,     \* history: while no two calls overlapped, the failures at the end of the sequence of attempted calls
    clean,      \* history: no two calls overlapped and no unexpected error was raised
    trials,     \* history: the calls let through since the breaker became HALF_OPEN
                \* (0, 1, or 2 for two and more)
    \* retry_with_backoff: one call of the wrapper it returns
    max_attempts,       \* arguments of the decorator
    exceptions,
    on_retry,           \* whether a callback was given
    wpc,        \* where the wrapper is: "try" (about to call func), "sleep"
                \* (inside time.sleep), "returned" or "raised"
    attempt,    \* the loop variable
    last_exception,
    wres,       \* what the wrapper returned or raised
    wlog,       \* history: the calls of func, of on_retry and of time.sleep, in order
    \* IntelligentCache: one instance and the directory it persists to
    cache,      \* _cache: key -> value (a dict: the domain is the keys it holds)
    metadata,   \* _metadata: key -> CacheMetadata
    files,      \* the files of cache_dir: file name -> content
    saved,      \* history: the keys whose entry in memory was mirrored to its
                \* file by the set that made it, or was loaded from it
    evicted,    \* history: the keys the last invalidate or invalidate_pattern
                \* removed from the dicts, if that was the last operation
    got,        \* the value the last get returned
    \* LiveIntelligencePipeline: one instance and the calls of generate_live
    cache_strategy,             \* constructor arguments
    enable_background_refresh,
    run         \* per call of generate_live: where the generator is, what it
                \* was called with, and the history of what it did

rlVars == <<heap, buckets, rpc, rheld, rcost, tried>>

tbVars == <<tb, lock, tpc, tcost, tblocking, tok, granted, refilled>>

cbVars == <<failure_threshold, recovery_timeout, state, failure_count,
            last_failure_time, cpc, ctmp, cclk, cout, cres, consec, clean, trials>>

rtVars == <<max_attempts, exceptions, on_retry, wpc, attempt, last_exception,
            wres, wlog>>

icVars == <<cache, metadata, files, saved, evicted, got>>

plVars == <<cache_strategy, enable_background_refresh, run>>

\* what the operations of each component leave alone
notRL == <<tbVars, cbVars, rtVars, icVars, plVars>>
notTB == <<rlVars, cbVars, rtVars, icVars, plVars>>
notCB == <<rlVars, tbVars, rtVars, icVars, plVars>>
notRT == <<rlVars, tbVars, cbVars, icVars, plVars>>
notRB == <<rlVars, tbVars, icVars, plVars>>
notIC == <<rlVars, tbVars, cbVars, rtVars, plVars>>
notPL == <<rlVars, tbVars, cbVars, rtVars>>

vars == <<now, rlVars, tbVars, cbVars, rtVars, icVars, plVars>>

----------------------------------------------------------------------------
(* Bounds of the model *)

MaxTime == 2
MaxTimeCB == 3
MaxThreshold == 2
MaxFailures == 3
MaxAttempts == 3
MaxTimeTB == 2

(* Resolution of the fixed-point representation *)

TicksPerSec == 2
RateDen == 2
UnitsPerToken == TicksPerSec * RateDen

(* RateLimiter(default_rate=5.0) *)
DefaultRate == 10

Domains == {"a"}
Callers == {1, 2}
\* the rates set_rate is called with: 0.5, 1 and 2 tokens per second
Rates == {1, 2, 4}
\* the tokens arguments of acquire and try_acquire
Costs == {1, 2}

Min(a, b) == IF a <= b THEN a ELSE b

----------------------------------------------------------------------------
(* TokenBucket *)

\* int(rate)
IntOfRate(rate) == rate \div RateDen

\* TokenBucket.__init__(rate, capacity) at time t; capacity 0 stands for None
\* (`capacity or int(rate)` takes int(rate) for both)
TokenBucketInit(rate, capacity, t) ==
    LET cap == IF capacity # 0 THEN capacity ELSE IntOfRate(rate)
    IN  [rate |-> rate, capacity |-> cap,
         tokens |-> cap * UnitsPerToken, last_update |-> t]

RefillNoCap(b, t) ==
    [b EXCEPT !.tokens = b.tokens + (t - b.last_update) * b.rate,
              !.last_update = t]

\* TokenBucket._refill at time t
Refill(b, t) ==
    [b EXCEPT !.tokens = Min(b.capacity * UnitsPerToken,
                             b.tokens + (t - b.last_update) * b.rate),
              !.last_update = t]

ConsumeNoCheck(b, n, t) ==
    LET r == Refill(b, t)
    IN  [bucket |-> [r EXCEPT !.tokens = @ - n * UnitsPerToken], ok |-> TRUE]

ConsumeOnFailure(b, n, t) ==
    LET r == Refill(b, t)
    IN  IF r.tokens >= n * UnitsPerToken
        THEN [bucket |-> [r EXCEPT !.tokens = @ - n * UnitsPerToken], ok |-> TRUE]
        ELSE [bucket |-> [r EXCEPT !.tokens = 0], ok |-> FALSE]

\* TokenBucket.consume(n) at time t, under the bucket's lock: the bucket
\* afterwards and the value returned
Consume(b, n, t) ==
    LET r == Refill(b, t)
    IN  IF r.tokens >= n * UnitsPerToken
        THEN [bucket |-> [r EXCEPT !.tokens = @ - n * UnitsPerToken], ok |-> TRUE]
        ELSE [bucket |-> r, ok |-> FALSE]

\* TokenBucket.available_tokens at time t: the bucket afterwards and int(tokens)
AvailableTokens(b, t) ==
    LET r == Refill(b, t)
    IN  [bucket |-> r, val |-> r.tokens \div UnitsPerToken]

--------------------------------------------------------------------------------------------------------------------------------------------------
(* RateLimiter *)

\* the value of `tried`: a bool of the code, or that try_acquire was never called
NotCalled == "not called"
PyBool(x) == IF x THEN "True" ELSE "False"

\* the positions of h that are still referred to: by the map, or by the local
\* variable `bucket` of a caller inside acquire or try_acquire
Live(h, bm, pc, held) ==
    {i \in 1..Len(h) : \/ \E d \in Domains : bm[d] = i
                       \/ \E c \in Callers : pc[c] # "idle" /\ held[c] = i}

\* the position of object i once the objects outside `live` are dropped
Rank(i, live) == Cardinality({j \in live : j <= i})

\* the heap without the objects that nothing refers to any more
Collect(h, live) ==
    [k \in 1..Cardinality(live) |-> h[CHOOSE i \in live : Rank(i, live) = k]]

\* a reference (0: none) after the objects outside `live` are dropped
Moved(i, live) == IF i = 0 THEN 0 ELSE Rank(i, live)

\* RateLimiter._get_bucket(domain): the heap and the map afterwards, and the
\* position of the bucket returned
GetBucket(d) ==
    IF buckets[d] = 0
    THEN [heap |-> Append(heap, TokenBucketInit(DefaultRate, 0, now)),
          buckets |-> [buckets EXCEPT ![d] = Len(heap) + 1],
          idx |-> Len(heap) + 1]
    ELSE [heap |-> heap, buckets |-> buckets, idx |-> buckets[d]]

\* RateLimiter.acquire(domain, tokens): _get_bucket, then enter wait_for_token
Acquire(c, d, n) ==
    /\ rpc[c] = "idle"
    /\ LET g == GetBucket(d)
       IN  /\ heap' = g.heap
           /\ buckets' = g.buckets
           /\ rheld' = [rheld EXCEPT ![c] = g.idx]
    /\ rpc' = [rpc EXCEPT ![c] = "waiting"]
    /\ rcost' = [rcost EXCEPT ![c] = n]
    /\ UNCHANGED <<now, tried, notRL>>

\* TokenBucket.wait_for_token: one turn of `while not self.consume(tokens)`;
\* a failed turn sleeps and stays in the loop, a successful one returns
WaitForToken(c) ==
    /\ rpc[c] = "waiting"
    /\ LET r == Consume(heap[rheld[c]], rcost[c], now)
           h == [heap EXCEPT ![rheld[c]] = r.bucket]
           pc == [rpc EXCEPT ![c] = "idle"]
           live == Live(h, buckets, pc, rheld)
       IN  IF r.ok
           THEN /\ rpc' = pc
                /\ rcost' = [rcost EXCEPT ![c] = 0]
                /\ heap' = Collect(h, live)
                /\ buckets' = [d \in Domains |-> Moved(buckets[d], live)]
                /\ rheld' = [x \in Callers |->
                                IF x = c THEN 0 ELSE Moved(rheld[x], live)]
           ELSE /\ heap' = h
                /\ UNCHANGED <<rpc, rheld, rcost, buckets>>
    /\ UNCHANGED <<now, tried, notRL>>

\* RateLimiter.try_acquire(domain, tokens) up to `bucket =
\* self._get_bucket(domain)`: the limiter's lock is released again
TryAcquire(c, d, n) ==
    /\ rpc[c] = "idle"
    /\ LET g == GetBucket(d)
       IN  /\ heap' = g.heap
           /\ buckets' = g.buckets
           /\ rheld' = [rheld EXCEPT ![c] = g.idx]
    /\ rpc' = [rpc EXCEPT ![c] = "trying"]
    /\ rcost' = [rcost EXCEPT ![c] = n]
    /\ UNCHANGED <<now, tried, notRL>>

\* the rest of try_acquire: `return bucket.consume(tokens)` on the bucket
\* it was given
TryConsume(c) ==
    /\ rpc[c] = "trying"
    /\ LET r == Consume(heap[rheld[c]], rcost[c], now)
           h == [heap EXCEPT ![rheld[c]] = r.bucket]
           pc == [rpc EXCEPT ![c] = "idle"]
           live == Live(h, buckets, pc, rheld)
       IN  /\ tried' = PyBool(r.ok)
           /\ rpc' = pc
           /\ rcost' = [rcost EXCEPT ![c] = 0]
           /\ heap' = Collect(h, live)
           /\ buckets' = [d \in Domains |-> Moved(buckets[d], live)]
           /\ rheld' = [x \in Callers |->
                           IF x = c THEN 0 ELSE Moved(rheld[x], live)]
    /\ UNCHANGED <<now, notRL>>

\* a read of TokenBucket.available_tokens of the domain's bucket (its value
\* is AvailableTokens(..).val, int(tokens) of the bucket it leaves)
ReadAvailable(d) ==
    /\ buckets[d] # 0
    /\ heap' = [heap EXCEPT ![buckets[d]] = AvailableTokens(@, now).bucket]
    /\ UNCHANGED <<now, buckets, rpc, rheld, rcost, tried, notRL>>

\* RateLimiter.set_rate(domain, rate)
SetRate(d, rate) ==
    /\ LET h == Append(heap, TokenBucketInit(rate, 0, now))
           bm == [buckets EXCEPT ![d] = Len(h)]
           live == Live(h, bm, rpc, rheld)
       IN  /\ heap' = Collect(h, live)
           /\ buckets' = [x \in Domains |-> Moved(bm[x], live)]
           /\ rheld' = [x \in Callers |-> Moved(rheld[x], live)]
    /\ UNCHANGED <<now, rpc, rcost, tried, notRL>>

\* the wall clock advances
Tick ==
    /\ now < MaxTime
    /\ now' = now + 1
    /\ UNCHANGED <<rlVars, notRL>>

InitRLVars ==
    /\ heap = <<>>
    /\ buckets = [d \in Domains |-> 0]
    /\ rpc = [c \in Callers |-> "idle"]
    /\ rheld = [c \in Callers |-> 0]
    /\ rcost = [c \in Callers |-> 0]
    /\ tried = NotCalled

NextRL ==
    \/ Tick
    \/ \E c \in Callers, d \in Domains, n \in Costs : Acquire(c, d, n)
    \/ \E c \in Callers : WaitForToken(c)
    \/ \E c \in Callers, d \in Domains, n \in Costs : TryAcquire(c, d, n)
    \/ \E c \in Callers : TryConsume(c)
    \/ \E d \in Domains : ReadAvailable(d)
    \/ \E d \in Domains, rate \in Rates : SetRate(d, rate)

----------------------------------------------------------------------------
(* TokenBucket.consume and wait_for_token, statement by statement *)

\* a thread calls acquire (blocking) or try_acquire on the bucket: it is
\* about to enter `with self.lock` of consume
Enter(c, n, blocking) ==
    /\ tpc[c] = "idle"
    /\ tpc' = [tpc EXCEPT ![c] = "enter"]
    /\ tcost' = [tcost EXCEPT ![c] = n]
    /\ tblocking' = [tblocking EXCEPT ![c] = blocking]
    /\ UNCHANGED <<now, notTB, tb, lock, tok, granted, refilled>>

LockNotExclusive(c) ==
    /\ tpc[c] = "enter"
    /\ lock' = c
    /\ tpc' = [tpc EXCEPT ![c] = "refill"]
    /\ UNCHANGED <<now, notTB, tb, tcost, tblocking, tok, granted, refilled>>

\* `with self.lock:` the lock is taken when nobody holds it
Lock(c) ==
    /\ tpc[c] = "enter"
    /\ lock = 0
    /\ lock' = c
    /\ tpc' = [tpc EXCEPT ![c] = "refill"]
    /\ UNCHANGED <<now, notTB, tb, tcost, tblocking, tok, granted, refilled>>

\* self._refill()
DoRefill(c) ==
    /\ tpc[c] = "refill"
    /\ tb' = Refill(tb, now)
    /\ refilled' = refilled + (tb'.tokens - tb.tokens)
    /\ tpc' = [tpc EXCEPT ![c] = "check"]
    /\ UNCHANGED <<now, notTB, lock, tcost, tblocking, tok, granted>>

\* `if self.tokens >= tokens:`
Check(c) ==
    /\ tpc[c] = "check"
    /\ IF tb.tokens >= tcost[c] * UnitsPerToken
       THEN /\ tpc' = [tpc EXCEPT ![c] = "take"]
            /\ UNCHANGED tok
       ELSE /\ tpc' = [tpc EXCEPT ![c] = "exit"]
            /\ tok' = [tok EXCEPT ![c] = FALSE]
    /\ UNCHANGED <<now, notTB, tb, lock, tcost, tblocking, granted, refilled>>

\* `self.tokens -= tokens; return True`
Take(c) ==
    /\ tpc[c] = "take"
    /\ tb' = [tb EXCEPT !.tokens = @ - tcost[c] * UnitsPerToken]
    /\ granted' = granted + tcost[c] * UnitsPerToken
    /\ tok' = [tok EXCEPT ![c] = TRUE]
    /\ tpc' = [tpc EXCEPT ![c] = "exit"]
    /\ UNCHANGED <<now, notTB, lock, tcost, tblocking, refilled>>

\* the with block is left and consume returns: the lock is released; then
\* acquire and try_acquire return, or wait_for_token calls time.sleep(0.01)
Unlock(c) ==
    /\ tpc[c] = "exit"
    /\ lock' = 0
    /\ tpc' = [tpc EXCEPT ![c] = IF ~tok[c] /\ tblocking[c] THEN "sleep" ELSE "idle"]
    /\ UNCHANGED <<now, notTB, tb, tcost, tblocking, tok, granted, refilled>>

\* time.sleep(0.01) returns: the next turn of `while not self.consume(tokens)`
Wake(c) ==
    /\ tpc[c] = "sleep"
    /\ tpc' = [tpc EXCEPT ![c] = "enter"]
    /\ UNCHANGED <<now, notTB, tb, lock, tcost, tblocking, tok, granted, refilled>>

TickTB ==
    /\ now < MaxTimeTB
    /\ now' = now + 1
    /\ UNCHANGED <<tbVars, notTB>>

\* TokenBucket(rate) constructed at time 0, no thread inside it
InitBucket(rate) ==
    /\ tb = TokenBucketInit(rate, 0, 0)
    /\ lock = 0
    /\ tpc = [c \in Callers |-> "idle"]
    /\ tcost = [c \in Callers |-> 0]
    /\ tblocking = [c \in Callers |-> FALSE]
    /\ tok = [c \in Callers |-> FALSE]
    /\ granted = 0
    /\ refilled = 0

InitTBVars == InitBucket(DefaultRate)

NextTB ==
    \/ TickTB
    \/ \E c \in Callers, n \in Costs, blocking \in BOOLEAN : Enter(c, n, blocking)
    \/ \E c \in Callers : Lock(c)
    \/ \E c \in Callers : DoRefill(c)
    \/ \E c \in Callers : Check(c)
    \/ \E c \in Callers : Take(c)
    \/ \E c \in Callers : Unlock(c)
    \/ \E c \in Callers : Wake(c)

----------------------------------------------------------------------------
(* CircuitBreaker *)

NoTime == -1

\* what a call of the wrapped operation does, and what CircuitBreaker.call
\* hands to its caller: a value returned or an exception raised
Returns(v) == [kind |-> "return", what |-> v]
Raises(e) == [kind |-> "raise", what |-> e]
Nothing == [kind |-> "none", what |-> "none"]

\* the wrapped operation returns a page, or raises an exception of the
\* breaker's expected_exception or another one
ExpectedErrors == {"ConnectionError"}
OtherErrors == {"KeyError"}
Outcomes == {Returns("page")} \cup {Raises(e) : e \in ExpectedErrors \cup OtherErrors}

\* OrbitException(..., error_code="CIRCUIT_BREAKER_OPEN")
BreakerOpen == Raises("CIRCUIT_BREAKER_OPEN")

\* CircuitBreaker._should_attempt_reset, its last line: time.time() has
\* returned t, last_failure_time is read
ShouldAttemptReset(t) == t - last_failure_time >= recovery_timeout

Quiescent == \A c \in Callers : cpc[c] = "idle"

\* CircuitBreaker.call, `if self.state == "OPEN":` the state is read
CallEnter(c) ==
    /\ cpc[c] = "idle"
    /\ cout' = [cout EXCEPT ![c] = Nothing]
    /\ cres' = [cres EXCEPT ![c] = Nothing]
    /\ clean' = (clean /\ Quiescent)
    /\ IF state = "OPEN"
       THEN /\ cpc' = [cpc EXCEPT ![c] = "open"]
            /\ UNCHANGED trials
       ELSE /\ cpc' = [cpc EXCEPT ![c] = "func"]
            /\ trials' = IF state = "HALF_OPEN"
                         THEN (IF trials < 2 THEN trials + 1 ELSE trials)
                         ELSE 0
    /\ UNCHANGED <<now, notCB, failure_threshold, recovery_timeout, state,
                   failure_count, last_failure_time, ctmp, cclk, consec>>

\* `if self._should_attempt_reset():` by a caller that read OPEN:
\* `if self.last_failure_time is None: return True`, else time.time() is
\* called
AttemptReset(c) ==
    /\ cpc[c] = "open"
    /\ IF last_failure_time = NoTime
       THEN /\ cpc' = [cpc EXCEPT ![c] = "half_open"]
            /\ UNCHANGED cclk
       ELSE /\ cpc' = [cpc EXCEPT ![c] = "elapsed"]
            /\ cclk' = [cclk EXCEPT ![c] = now]
    /\ UNCHANGED <<now, notCB, failure_threshold, recovery_timeout, state,
                   failure_count, last_failure_time, ctmp, cout, cres, consec,
                   clean, trials>>

\* the comparison of _should_attempt_reset, last_failure_time being read
\* now; when False the call is rejected
TestElapsed(c) ==
    /\ cpc[c] = "elapsed"
    /\ cclk' = [cclk EXCEPT ![c] = 0]
    /\ IF ShouldAttemptReset(cclk[c])
       THEN /\ cpc' = [cpc EXCEPT ![c] = "half_open"]
            /\ UNCHANGED cres
       ELSE /\ cpc' = [cpc EXCEPT ![c] = "idle"]
            /\ cres' = [cres EXCEPT ![c] = BreakerOpen]
    /\ UNCHANGED <<now, notCB, failure_threshold, recovery_timeout, state,
                   failure_count, last_failure_time, ctmp, cout, consec, clean,
                   trials>>

\* `self.state = "HALF_OPEN"`, and func is called
SetHalfOpen(c) ==
    /\ cpc[c] = "half_open"
    /\ state' = "HALF_OPEN"
    /\ cpc' = [cpc EXCEPT ![c] = "func"]
    /\ trials' = IF state = "HALF_OPEN"
                 THEN (IF trials < 2 THEN trials + 1 ELSE trials)
                 ELSE 1
    /\ UNCHANGED <<now, notCB, failure_threshold, recovery_timeout,
                   failure_count, last_failure_time, ctmp, cclk, cout, cres, consec,
                   clean>>

FuncReturnsKeepsCount(c, out) ==
    /\ cpc[c] = "func"
    /\ out.kind = "return"
    /\ cout' = [cout EXCEPT ![c] = out]
    /\ cpc' = [cpc EXCEPT ![c] = "on_success"]
    /\ UNCHANGED <<now, notCB, failure_threshold, recovery_timeout, state,
                   failure_count, last_failure_time, ctmp, cclk, cres, consec, clean,
                   trials>>

\* func returns: _on_success starts, `self.failure_count = 0`
FuncReturns(c, out) ==
    /\ cpc[c] = "func"
    /\ out.kind = "return"
    /\ failure_count' = 0
    /\ cout' = [cout EXCEPT ![c] = out]
    /\ cpc' = [cpc EXCEPT ![c] = "on_success"]
    /\ UNCHANGED <<now, notCB, failure_threshold, recovery_timeout, state,
                   last_failure_time, ctmp, cclk, cres, consec, clean, trials>>

\* the rest of _on_success: `self.state = "CLOSED"`; the result is returned
OnSuccess(c) ==
    /\ cpc[c] = "on_success"
    /\ state' = "CLOSED"
    /\ cres' = [cres EXCEPT ![c] = cout[c]]
    /\ cpc' = [cpc EXCEPT ![c] = "idle"]
    /\ consec' = 0
    /\ trials' = 0
    /\ UNCHANGED <<now, notCB, failure_threshold, recovery_timeout,
                   failure_count, last_failure_time, ctmp, cclk, cout, clean>>

\* func raises an exception that `except self.expected_exception` catches:
\* _on_failure starts and reads failure_count
FuncRaisesExpected(c, out) ==
    /\ cpc[c] = "func"
    /\ failure_count < MaxFailures
    /\ out.kind = "raise" /\ out.what \in ExpectedErrors
    /\ cout' = [cout EXCEPT ![c] = out]
    /\ ctmp' = [ctmp EXCEPT ![c] = failure_count]
    /\ cpc' = [cpc EXCEPT ![c] = "on_failure"]
    /\ UNCHANGED <<now, notCB, failure_threshold, recovery_timeout, state,
                   failure_count, last_failure_time, cclk, cres, consec, clean,
                   trials>>

\* `self.failure_count += 1`: the store
OnFailure(c) ==
    /\ cpc[c] = "on_failure"
    /\ failure_count' = ctmp[c] + 1
    /\ ctmp' = [ctmp EXCEPT ![c] = 0]
    /\ cpc' = [cpc EXCEPT ![c] = "stamp"]
    /\ UNCHANGED <<now, notCB, failure_threshold, recovery_timeout, state,
                   last_failure_time, cclk, cout, cres, consec, clean, trials>>

\* `self.last_failure_time = time.time()`: time.time() is called
ReadTime(c) ==
    /\ cpc[c] = "stamp"
    /\ cclk' = [cclk EXCEPT ![c] = now]
    /\ cpc' = [cpc EXCEPT ![c] = "stamped"]
    /\ UNCHANGED <<now, notCB, failure_threshold, recovery_timeout, state,
                   failure_count, last_failure_time, ctmp, cout, cres, consec,
                   clean, trials>>

\* `self.last_failure_time = time.time()`: the store of what was read
SetLastFailureTime(c) ==
    /\ cpc[c] = "stamped"
    /\ last_failure_time' = cclk[c]
    /\ cclk' = [cclk EXCEPT ![c] = 0]
    /\ cpc' = [cpc EXCEPT ![c] = "test"]
    /\ UNCHANGED <<now, notCB, failure_threshold, recovery_timeout, state,
                   failure_count, ctmp, cout, cres, consec, clean, trials>>

ReraisedWrapped(c) == Raises("OrbitException")

\* `raise e` of call: the exception func raised
Reraised(c) == cout[c]

\* `if self.failure_count >= self.failure_threshold:` failure_count is read
\* again; when False _on_failure is over and call raises
TestThreshold(c) ==
    /\ cpc[c] = "test"
    /\ IF failure_count >= failure_threshold
       THEN /\ cpc' = [cpc EXCEPT ![c] = "trip"]
            /\ UNCHANGED <<cres, consec>>
       ELSE /\ cpc' = [cpc EXCEPT ![c] = "idle"]
            /\ cres' = [cres EXCEPT ![c] = Reraised(c)]
            /\ consec' = IF clean THEN consec + 1 ELSE 0
    /\ UNCHANGED <<now, notCB, failure_threshold, recovery_timeout, state,
                   failure_count, last_failure_time, ctmp, cclk, cout, clean, trials>>

\* `self.state = "OPEN"`; _on_failure is over and call raises
SetOpen(c) ==
    /\ cpc[c] = "trip"
    /\ state' = "OPEN"
    /\ cpc' = [cpc EXCEPT ![c] = "idle"]
    /\ cres' = [cres EXCEPT ![c] = Reraised(c)]
    /\ consec' = IF clean THEN consec + 1 ELSE 0
    /\ trials' = 0
    /\ UNCHANGED <<now, notCB, failure_threshold, recovery_timeout,
                   failure_count, last_failure_time, ctmp, cclk, cout, clean>>

\* func raises an exception that `except self.expected_exception` does not
\* catch: it leaves call as it is, no handler of the breaker runs
FuncRaisesOther(c, out) ==
    /\ cpc[c] = "func"
    /\ out.kind = "raise" /\ out.what \in OtherErrors
    /\ cout' = [cout EXCEPT ![c] = out]
    /\ cres' = [cres EXCEPT ![c] = out]
    /\ cpc' = [cpc EXCEPT ![c] = "idle"]
    /\ clean' = FALSE
    /\ UNCHANGED <<now, notCB, failure_threshold, recovery_timeout, state,
                   failure_count, last_failure_time, ctmp, cclk, consec, trials>>

\* the wall clock advances while the breaker is in use
TickCB ==
    /\ now < MaxTimeCB
    /\ now' = now + 1
    /\ UNCHANGED <<cbVars, notCB>>

InitCBVars ==
    /\ state = "CLOSED"
    /\ failure_count = 0
    /\ last_failure_time = NoTime
    /\ cpc = [c \in Callers |-> "idle"]
    /\ ctmp = [c \in Callers |-> 0]
    /\ cclk = [c \in Callers |-> 0]
    /\ cout = [c \in Callers |-> Nothing]
    /\ cres = [c \in Callers |-> Nothing]
    /\ consec = 0
    /\ clean = TRUE
    /\ trials = 0

NextCB ==
    \/ TickCB
    \/ \E c \in Callers : CallEnter(c)
    \/ \E c \in Callers : AttemptReset(c)
    \/ \E c \in Callers : TestElapsed(c)
    \/ \E c \in Callers : SetHalfOpen(c)
    \/ \E c \in Callers, out \in Outcomes : FuncReturns(c, out)
    \/ \E c \in Callers : OnSuccess(c)
    \/ \E c \in Callers, out \in Outcomes : FuncRaisesExpected(c, out)
    \/ \E c \in Callers : OnFailure(c)
    \/ \E c \in Callers : ReadTime(c)
    \/ \E c \in Callers : SetLastFailureTime(c)
    \/ \E c \in Callers : TestThreshold(c)
    \/ \E c \in Callers : SetOpen(c)
    \/ \E c \in Callers, out \in Outcomes : FuncRaisesOther(c, out)

----------------------------------------------------------------------------
(* retry_with_backoff *)

\* delays are counted in hundredths of a second
BaseDelay == 100
MaxDelay == 6000

\* 0.75 + random.random() * 0.5, in percent: random.random() is in [0, 1)
JitterPercents == {75, 100, 124}

\* exponential_backoff_with_jitter(attempt, base_delay, max_delay), the
\* jitter factor being j percent
ExponentialBackoffWithJitter(n, base_delay, max_delay, j) ==
    (Min(base_delay * 2^n, max_delay) * j) \div 100

\* what a call of func may do: return a value, or raise an exception
FuncOutcomes ==
    {[kind |-> "return", type |-> "page"]}
        \cup {[kind |-> "raise", type |-> t] : t \in {"ConnectionError", "KeyError"}}

\* the value or the exception object of the n-th call of func: every call
\* makes an object of its own
Object(o, n) == [kind |-> o.kind, type |-> o.type, id |-> n]

NoException == [kind |-> "none", type |-> "none", id |-> 0]

CatchesAll(e) == TRUE

\* `except exceptions as e`: e is an instance of a class of the tuple
Catches(e) == "Exception" \in exceptions \/ e.type \in exceptions

\* `if attempt < max_attempts - 1`
HasAttemptsLeft(n) == n < max_attempts - 1

InRangeOneMore(n) == n < max_attempts + 1

\* `for attempt in range(max_attempts)`
InRange(n) == n < max_attempts

Call(out) == [ev |-> "call", what |-> out, n |-> out.id]

RetryEventsSleepFirst(e, n, delay) ==
    <<[ev |-> "sleep", what |-> NoException, n |-> delay]>>
        \o (IF on_retry THEN <<[ev |-> "on_retry", what |-> e, n |-> n]>> ELSE <<>>)

\* lines 79-91: the delay is computed, on_retry(e, attempt) is called when
\* given, then time.sleep(delay)
RetryEvents(e, n, delay) ==
    (IF on_retry THEN <<[ev |-> "on_retry", what |-> e, n |-> n]>> ELSE <<>>)
        \o <<[ev |-> "sleep", what |-> NoException, n |-> delay]>>

\* the body of one turn of the loop once func has returned or raised `out`:
\* the value is returned, or the except clause catches the exception (then the
\* wrapper sleeps, or leaves the loop after the last attempt and raises
\* last_exception), or it does not catch it
Handle(out, j) ==
    IF out.kind = "return"
    THEN /\ wlog' = Append(wlog, Call(out))
         /\ wres' = out
         /\ wpc' = "returned"
         /\ UNCHANGED <<attempt, last_exception>>
    ELSE IF Catches(out)
    THEN /\ last_exception' = out
         /\ IF HasAttemptsLeft(attempt)
            THEN /\ wlog' = Append(wlog, Call(out)) \o
                              RetryEvents(out, attempt,
                                  ExponentialBackoffWithJitter(attempt, BaseDelay, MaxDelay, j))
                 /\ wpc' = "sleep"
                 /\ UNCHANGED <<attempt, wres>>
            ELSE /\ wlog' = Append(wlog, Call(out))
                 /\ attempt' = attempt + 1
                 /\ IF InRange(attempt')
                    THEN wpc' = "try" /\ UNCHANGED wres
                    ELSE wpc' = "raised" /\ wres' = last_exception'
    ELSE /\ wlog' = Append(wlog, Call(out))
         /\ wres' = out
         /\ wpc' = "raised"
         /\ UNCHANGED <<attempt, last_exception>>

\* one turn of the loop: func is called, and returns or raises
Attempt(o, j) ==
    /\ wpc = "try"
    /\ Handle(Object(o, attempt), j)
    /\ UNCHANGED <<now, notRT, max_attempts, exceptions, on_retry>>

\* time.sleep(delay) has returned: the next turn of the loop, or the end of
\* the loop and `raise last_exception`
Resume ==
    /\ attempt' = attempt + 1
    /\ IF InRange(attempt')
       THEN wpc' = "try" /\ UNCHANGED wres
       ELSE wpc' = "raised" /\ wres' = last_exception
    /\ UNCHANGED <<max_attempts, exceptions, on_retry, last_exception, wlog>>

\* time.sleep(delay) returns
Sleep ==
    /\ wpc = "sleep"
    /\ Resume
    /\ UNCHANGED <<now, notRT>>

InitRTVars ==
    /\ wpc = "try"
    /\ attempt = 0
    /\ last_exception = NoException
    /\ wres = NoException
    /\ wlog = <<>>

NextRT ==
    \/ \E o \in FuncOutcomes, j \in JitterPercents : Attempt(o, j)
    \/ Sleep

----------------------------------------------------------------------------
(* retry_with_backoff around CircuitBreaker.call: the decorated function is *)
(* a call of the operation through a breaker.  Here the clock `now` and    *)
(* recovery_timeout are counted in hundredths of a second, as the delays   *)
(* of the wrapper are, so that a sleep advances the clock by its delay.    *)

\* the wrapper is this caller of the breaker
Wrapper == 1

\* the recovery timeouts of the breaker under the wrapper, 1.0 and 3.0
\* seconds: within and beyond the delays of the first retries
GuardedTimeouts == {100, 300}

\* what CircuitBreaker.call handed back, as the value or exception object the
\* wrapper's n-th call of func gets: the rejection is an OrbitException
AsObject(res, n) ==
    [kind |-> res.kind,
     type |-> IF res = BreakerOpen THEN "OrbitException" ELSE res.what,
     id |-> n]

\* func is called: CircuitBreaker.call starts
GuardedEnter ==
    /\ wpc = "try"
    /\ cres[Wrapper] = Nothing
    /\ CallEnter(Wrapper)

\* CircuitBreaker.call has returned or raised: the rest of the turn of the loop
GuardedHandle(j) ==
    /\ wpc = "try"
    /\ cpc[Wrapper] = "idle"
    /\ cres[Wrapper] # Nothing
    /\ Handle(AsObject(cres[Wrapper], attempt), j)
    /\ cres' = [cres EXCEPT ![Wrapper] = Nothing]
    /\ UNCHANGED <<now, notRB, failure_threshold, recovery_timeout, state,
                   failure_count, last_failure_time, cpc, ctmp, cclk, cout, consec,
                   clean, trials, max_attempts, exceptions, on_retry>>

\* time.sleep(delay) returns, the delay being the one just logged
GuardedSleep ==
    /\ wpc = "sleep"
    /\ Resume
    /\ now' = now + wlog[Len(wlog)].n
    /\ UNCHANGED <<notRB, cbVars>>

NextRB ==
    \/ GuardedEnter
    \/ AttemptReset(Wrapper)
    \/ TestElapsed(Wrapper)
    \/ SetHalfOpen(Wrapper)
    \/ \E out \in Outcomes : FuncReturns(Wrapper, out)
    \/ OnSuccess(Wrapper)
    \/ \E out \in Outcomes : FuncRaisesExpected(Wrapper, out)
    \/ OnFailure(Wrapper)
    \/ ReadTime(Wrapper)
    \/ SetLastFailureTime(Wrapper)
    \/ TestThreshold(Wrapper)
    \/ SetOpen(Wrapper)
    \/ \E out \in Outcomes : FuncRaisesOther(Wrapper, out)
    \/ \E j \in JitterPercents : GuardedHandle(j)
    \/ GuardedSleep

----------------------------------------------------------------------------
(* IntelligentCache *)
(* Times are datetime.utcnow() and durations are timedelta, both counted   *)
(* in ticks of the clock `now`.  A string is the sequence of its parts.    *)

MaxTimeIC == 2
MaxHits == 2

\* Python's None, as a returned value and as an omitted argument
None == <<>>

\* `max_age: Optional[timedelta] = None`
NoMaxAge == -1

\* the keys, values and arguments the operations are called with; no key is
\* empty or holds a path separator
Keys == {<<"a">>, <<"a", "b">>}
Patterns == {<<>>, <<"a">>, <<"b">>, <<"b", "a">>}
Values == {<<"v1">>, <<"v2">>}
Ttls == {0, 1, 2}
MaxAges == {NoMaxAge, 0, 1}
Qualities == {"unknown"}
Hashes == {None}

IsPrefix(p, k) == Len(p) <= Len(k) /\ SubSeq(k, 1, Len(p)) = p

\* `pattern in k` for strings
IsSubstring(p, k) ==
    \E i \in 0..(Len(k) - Len(p)) : SubSeq(k, i + 1, i + Len(p)) = p

\* cache_dir / f"{key}.json", and Path.stem of such a name
FileName(key) == Append(key, ".json")
Stem(name) == SubSeq(name, 1, Len(name) - 1)
\* cache_dir.glob("*.json")
IsJsonFile(name) == Len(name) > 0 /\ name[Len(name)] = ".json"

\* datetime.isoformat and datetime.fromisoformat
IsoFormat(t) == <<"iso", t>>
FromIsoFormat(str) == str[2]

\* json.dump(..., default=str) and json.load of a value that is a JSON document
JsonDump(v) == <<"json", v>>
JsonLoad(doc) == doc[2]

\* IntelligentCache._hash_data
HashData(v) == <<"sha256", JsonDump(v)>>

PutIfAbsent(f, k, v) == [x \in (DOMAIN f) \cup {k} |-> IF x \in DOMAIN f THEN f[x] ELSE v]

\* a dict without key k, and with k bound to v
Remove(f, k) == [x \in DOMAIN f \ {k} |-> f[x]]
Put(f, k, v) == [x \in (DOMAIN f) \cup {k} |-> IF x = k THEN v ELSE f[x]]

\* the state of the instance and its directory after an operation, and what
\* the operation returned
Result(c, m, fs, v) == [cache |-> c, metadata |-> m, files |-> fs, val |-> v]

\* the content _save_cache writes for key k of the dicts c and m
FileContent(c, m, k) ==
    [value |-> JsonDump(c[k]),
     metadata |-> [created_at |-> IsoFormat(m[k].created_at),
                   expires_at |-> IsoFormat(m[k].expires_at),
                   hit_count |-> m[k].hit_count,
                   data_quality |-> m[k].data_quality,
                   source_hash |-> m[k].source_hash]]

\* IntelligentCache.invalidate
InvalidateResult(k) ==
    Result(Remove(cache, k), Remove(metadata, k), Remove(files, FileName(k)), None)

\* `if max_age and ...`: the truth value of the timedelta
Truthy(max_age) == max_age # NoMaxAge /\ max_age # 0

GetResultEvicting(k, max_age) ==
    IF k \notin DOMAIN metadata
    THEN Result(cache, metadata, files, None)
    ELSE IF \/ now > metadata[k].expires_at
            \/ Truthy(max_age) /\ now - metadata[k].created_at > max_age
    THEN InvalidateResult(k)
    ELSE Result(cache,
                [metadata EXCEPT ![k].hit_count = @ + 1],
                files,
                IF k \in DOMAIN cache THEN cache[k] ELSE None)

\* IntelligentCache.get
GetResult(k, max_age) ==
    IF k \notin DOMAIN metadata
    THEN Result(cache, metadata, files, None)
    ELSE IF now > metadata[k].expires_at
    THEN InvalidateResult(k)
    ELSE IF Truthy(max_age) /\ now - metadata[k].created_at > max_age
    THEN Result(cache, metadata, files, None)
    ELSE Result(cache,
                [metadata EXCEPT ![k].hit_count = @ + 1],
                files,
                IF k \in DOMAIN cache THEN cache[k] ELSE None)

\* what becomes of _save_cache: the file is written; open(cache_file, 'w')
\* raises; or open succeeds, which truncates the file, and the write raises
Written == "written"
OpenFails == "open fails"
WriteFails == "write fails"
Saves == {Written, OpenFails, WriteFails}

\* the content of a file that open(.., 'w') truncated and that was not
\* written whole: not a JSON document
Truncated == <<>>

SetResultForgetful(k, v, ttl, q, h, save) ==
    [cache |-> cache, metadata |-> metadata, files |-> files, val |-> None]

\* IntelligentCache.set; `save` is what becomes of _save_cache (when it
\* raises, set raises after the dicts were updated)
SetResult(k, v, ttl, q, h, save) ==
    LET c == Put(cache, k, v)
        m == Put(metadata, k,
                 [key |-> k, created_at |-> now, expires_at |-> now + ttl,
                  hit_count |-> 0, data_quality |-> q,
                  source_hash |-> IF h = None THEN HashData(v) ELSE h])
    IN  Result(c, m,
               IF save = Written THEN Put(files, FileName(k), FileContent(c, m, k))
               ELSE IF save = WriteFails THEN Put(files, FileName(k), Truncated)
               ELSE files,
               None)

\* the keys _load_cache loads: a JSON file that json.load can read and
\* whose entry has not expired
Loadable ==
    {Stem(name) : name \in {n \in DOMAIN files :
        /\ IsJsonFile(n)
        /\ files[n] # Truncated
        /\ ~(now > FromIsoFormat(files[n].metadata.expires_at))}}

\* IntelligentCache.__init__ of a new instance over the same directory
LoadResult ==
    Result([k \in Loadable |-> JsonLoad(files[FileName(k)].value)],
           [k \in Loadable |->
               LET meta == files[FileName(k)].metadata IN
               [key |-> k,
                created_at |-> FromIsoFormat(meta.created_at),
                expires_at |-> FromIsoFormat(meta.expires_at),
                hit_count |-> meta.hit_count,
                data_quality |-> meta.data_quality,
                source_hash |-> meta.source_hash]],
           files, None)

\* the state after an operation with result r
Becomes(r) ==
    /\ cache' = r.cache
    /\ metadata' = r.metadata
    /\ files' = r.files

\* a get that would hit is counted up to MaxHits
CanCount(k, max_age) ==
    GetResult(k, max_age).val # None => metadata[k].hit_count < MaxHits

Get(k, max_age) ==
    /\ CanCount(k, max_age)
    /\ Becomes(GetResult(k, max_age))
    /\ got' = GetResult(k, max_age).val
    /\ saved' = saved \cap DOMAIN cache'
    /\ evicted' = {}
    /\ UNCHANGED <<now, notIC>>

Set(k, v, ttl, q, h, save) ==
    /\ Becomes(SetResult(k, v, ttl, q, h, save))
    /\ saved' = IF save = Written THEN saved \cup {k} ELSE saved \ {k}
    /\ evicted' = {}
    /\ UNCHANGED <<now, notIC, got>>

Invalidate(k) ==
    /\ Becomes(InvalidateResult(k))
    /\ saved' = saved \ {k}
    /\ evicted' = {k} \cap DOMAIN cache
    /\ UNCHANGED <<now, notIC, got>>

\* IntelligentCache.invalidate_pattern: invalidate for every key of _cache
\* that holds the pattern
InvalidatePattern(p) ==
    LET keys_to_remove == {k \in DOMAIN cache : IsSubstring(p, k)} IN
    /\ cache' = [k \in DOMAIN cache \ keys_to_remove |-> cache[k]]
    /\ metadata' = [k \in DOMAIN metadata \ keys_to_remove |-> metadata[k]]
    /\ files' = [n \in DOMAIN files \ {FileName(k) : k \in keys_to_remove} |-> files[n]]
    /\ saved' = saved \ keys_to_remove
    /\ evicted' = keys_to_remove
    /\ UNCHANGED <<now, notIC, got>>

\* the process ends and a new one constructs its IntelligentCache
Restart ==
    /\ Becomes(LoadResult)
    /\ saved' = Loadable
    /\ evicted' = {}
    /\ UNCHANGED <<now, notIC, got>>

TickIC ==
    /\ now < MaxTimeIC
    /\ now' = now + 1
    /\ UNCHANGED <<icVars, notIC>>

\* a new instance over an empty directory
InitICVars ==
    /\ cache = <<>>
    /\ metadata = <<>>
    /\ files = <<>>
    /\ saved = {}
    /\ evicted = {}
    /\ got = None

NextIC ==
    \/ TickIC
    \/ \E k \in Keys, max_age \in MaxAges : Get(k, max_age)
    \/ \E k \in Keys, v \in Values, ttl \in Ttls, q \in Qualities, h \in Hashes :
          Set(k, v, ttl, q, h, Written)
    \/ \E k \in Keys : Invalidate(k)
    \/ \E p \in Patterns : InvalidatePattern(p)
    \/ Restart

----------------------------------------------------------------------------
(* LiveIntelligencePipeline.generate_live *)
(* The clock ticks in hours here.  A call of generate_live is an async     *)
(* generator: it runs when its consumer asks for the next item, up to the  *)
(* next yield or await.                                                    *)

MaxTimePL == 2

\* the calls of generate_live: both for the same company and pipeline
Runs == {1, 2}
CompanyName == <<"A", ".", "I">>
PipelineName == "structured"

\* str.lower of a character
Lower(ch) == IF ch = "A" THEN "a" ELSE IF ch = "I" THEN "i" ELSE ch

\* company_name.lower().replace(" ", "_").replace(".", "")
RECURSIVE CompanyId(_)
CompanyId(name) ==
    IF name = <<>>
    THEN <<>>
    ELSE LET ch == Lower(Head(name)) IN
         IF ch = "." THEN CompanyId(Tail(name))
         ELSE IF ch = " " THEN <<"_">> \o CompanyId(Tail(name))
         ELSE <<ch>> \o CompanyId(Tail(name))

\* f"live_dashboard_{company_id}_{pipeline}"
CacheKey(company_name, pipeline) ==
    <<"live_dashboard_">> \o CompanyId(company_name) \o <<"_", pipeline>>

\* LiveIntelligencePipeline._get_ttl, for the strategies of the model
Strategies == {"balanced", "no_cache"}
GetTtl(strategy) == IF strategy = "balanced" THEN 1 ELSE 0

\* the four stages, the progress_pct of the events at their start and at
\* their end, and the collaborator each one calls
Stages == <<"SCRAPING", "EXTRACTING", "VALIDATING", "GENERATING">>
StartPct == <<20, 50, 75, 85>>
DonePct == <<40, 70, 80, 95>>
Collaborators == <<"_scrape_concurrent", "_extract_with_consensus",
                   "_validate_payload", "_generate_dashboard_async">>
\* _validate_payload is called, the others are awaited
Awaited(st) == Collaborators[st] # "_validate_payload"

\* exceptions: none, what a collaborator raises, what a failing file
\* operation raises
NoError == "none"
StageErrors == {"RuntimeError"}
IOError == "OSError"

\* payload.quality_grade
PayloadQuality == "A"

\* the `result` dict the call r builds; it holds generated_at
Artifact(r, t) == <<"result", r, t>>

\* PipelineProgress(stage, progress_pct, ..., metadata)
Event(stage, pct, result, error_type) ==
    [stage |-> stage, progress_pct |-> pct,
     metadata |-> [result |-> result, error_type |-> error_type]]

Started(st) == Event(Stages[st], StartPct[st], None, NoError)
Done(st) == Event(Stages[st], DonePct[st], None, NoError)
CompletedEmpty(result) == Event("COMPLETED", 100, None, NoError)
Completed(result) == Event("COMPLETED", 100, result, NoError)
FailedZero(e) == Event("FAILED", 0, None, e)

\* _schedule_background_refresh: asyncio.sleep(3600), in hours
RefreshDelay == 1

\* the generator before its first step
NewRun ==
    [pc |-> "new",              \* "new", "initialized", "started", "awaiting",
                                \* "done", "hit", "completed", "failed": the yield
                                \* or await it is suspended at; "closed", "raised"
     stage |-> 0,               \* the stage it is in (index in Stages)
     force_refresh |-> FALSE,
     events |-> <<>>,           \* history: the items it yielded
     invoked |-> <<>>,          \* history: the collaborators it called
     read |-> "none",           \* history: cache.get "hit", "miss", "failed", or "skipped"
     store |-> "none",          \* history: cache.set "written" or "failed"
     failed_at |-> 0,           \* history: the stage whose collaborator raised
     raised |-> NoError,        \* the exception that left the generator
     scheduled |-> FALSE,       \* asyncio.create_task(_schedule_background_refresh)
     wakes_at |-> NoTime,       \* when the sleep of the background task ends,
                                \* once the task has started
     triggered |-> FALSE]       \* the background task ran to its end

\* the except clause: FAILED is yielded
Fail(rec, e) == [rec EXCEPT !.pc = "failed", !.raised = e,
                            !.events = Append(@, FailedZero(e))]

\* lines 258-285: up to the yield of INITIALIZED
Begin(r, force) ==
    /\ run[r].pc = "new"
    /\ run' = [run EXCEPT ![r] = [@ EXCEPT !.pc = "initialized",
                                         !.force_refresh = force,
                                         !.events = <<Event("INITIALIZED", 0, None, NoError)>>]]
    /\ UNCHANGED <<now, notPL, icVars, cache_strategy, enable_background_refresh>>

\* lines 288-315: the cache is looked up unless force_refresh or NO_CACHE; a
\* hit is yielded as COMPLETED, otherwise the first stage starts.  `unlinks`
\* is whether the file of an expired entry can be removed (when it cannot,
\* get raises out of the generator after the dicts were updated)
CheckCache(r, unlinks) ==
    LET key == CacheKey(CompanyName, PipelineName)
        res == GetResult(key, GetTtl(cache_strategy))
    IN
    /\ run[r].pc = "initialized"
    /\ IF ~run[r].force_refresh /\ cache_strategy # "no_cache"
       THEN IF /\ ~unlinks
               /\ key \in DOMAIN metadata
               /\ now > metadata[key].expires_at
               /\ FileName(key) \in DOMAIN files
            THEN /\ cache' = res.cache
                 /\ metadata' = res.metadata
                 /\ saved' = saved \cap DOMAIN cache'
                 /\ evicted' = {}
                 /\ UNCHANGED <<files, got>>
                 /\ run' = [run EXCEPT ![r] = [@ EXCEPT !.pc = "raised", !.read = "failed",
                                                      !.raised = IOError]]
            ELSE /\ Becomes(res)
                 /\ got' = res.val
                 /\ saved' = saved \cap DOMAIN cache'
                 /\ evicted' = {}
                 /\ run' = [run EXCEPT ![r] =
                        IF res.val # None
                        THEN [@ EXCEPT !.pc = "hit", !.read = "hit",
                                       !.events = Append(@, Completed(res.val))]
                        ELSE [@ EXCEPT !.pc = "started", !.read = "miss", !.stage = 1,
                                       !.events = Append(@, Started(1))]]
       ELSE /\ run' = [run EXCEPT ![r] = [@ EXCEPT !.pc = "started", !.read = "skipped",
                                                 !.stage = 1,
                                                 !.events = Append(@, Started(1))]]
            /\ UNCHANGED icVars
    /\ UNCHANGED <<now, notPL, cache_strategy, enable_background_refresh>>

\* the collaborator of the stage is awaited
Invoke(r) ==
    /\ run[r].pc = "started"
    /\ Awaited(run[r].stage)
    /\ run' = [run EXCEPT ![r] = [@ EXCEPT !.pc = "awaiting",
                                         !.invoked = Append(@, Collaborators[run[r].stage])]]
    /\ UNCHANGED <<now, notPL, icVars, cache_strategy, enable_background_refresh>>

\* what follows the collaborator of stage st: the event of its end, or the
\* except clause when it raised e
Settled(rec, st, e) ==
    IF e = NoError
    THEN [rec EXCEPT !.pc = "done", !.events = Append(@, Done(st))]
    ELSE [Fail(rec, e) EXCEPT !.failed_at = st]

\* the awaited collaborator returns or raises
Settle(r, e) ==
    /\ run[r].pc = "awaiting"
    /\ run' = [run EXCEPT ![r] = Settled(@, run[r].stage, e)]
    /\ UNCHANGED <<now, notPL, icVars, cache_strategy, enable_background_refresh>>

\* _validate_payload is called and returns or raises
Validate(r, e) ==
    /\ run[r].pc = "started"
    /\ ~Awaited(run[r].stage)
    /\ run' = [run EXCEPT ![r] =
                  Settled([@ EXCEPT !.invoked = Append(@, Collaborators[run[r].stage])],
                          run[r].stage, e)]
    /\ UNCHANGED <<now, notPL, icVars, cache_strategy, enable_background_refresh>>

\* the next stage starts
Advance(r) ==
    /\ run[r].pc = "done"
    /\ run[r].stage < Len(Stages)
    /\ run' = [run EXCEPT ![r] = [@ EXCEPT !.pc = "started", !.stage = @ + 1,
                                         !.events = Append(@, Started(run[r].stage + 1))]]
    /\ UNCHANGED <<now, notPL, icVars, cache_strategy, enable_background_refresh>>

\* lines 383-414: after the last stage the result is built and cache.set is
\* called; COMPLETED is yielded, or the except clause runs when set raised
Store(r, save) ==
    LET key == CacheKey(CompanyName, PipelineName)
        result == Artifact(r, now)
        res == SetResult(key, result, GetTtl(cache_strategy), PayloadQuality, None, save)
    IN
    /\ run[r].pc = "done"
    /\ run[r].stage = Len(Stages)
    /\ Becomes(res)
    /\ saved' = IF save = Written THEN saved \cup {key} ELSE saved \ {key}
    /\ evicted' = {}
    /\ run' = [run EXCEPT ![r] =
                  IF save = Written
                  THEN [@ EXCEPT !.pc = "completed", !.store = "written",
                                 !.events = Append(@, Completed(result))]
                  ELSE Fail([@ EXCEPT !.store = "failed"], IOError)]
    /\ UNCHANGED <<now, notPL, got, cache_strategy, enable_background_refresh>>

\* the generator is resumed after its last yield: it returns after a cache
\* hit; after COMPLETED it creates the background task when enabled, and
\* ends.  asyncio.create_task only queues the task: it has not started
Close(r) ==
    /\ run[r].pc \in {"hit", "completed"}
    /\ run' = [run EXCEPT ![r] =
                  IF run[r].pc = "completed" /\ enable_background_refresh
                  THEN [@ EXCEPT !.pc = "closed", !.scheduled = TRUE]
                  ELSE [@ EXCEPT !.pc = "closed"]]
    /\ UNCHANGED <<now, notPL, icVars, cache_strategy, enable_background_refresh>>

\* the generator is resumed after the yield of FAILED: `raise`
Reraise(r) ==
    /\ run[r].pc = "failed"
    /\ run' = [run EXCEPT ![r] = [@ EXCEPT !.pc = "raised"]]
    /\ UNCHANGED <<now, notPL, icVars, cache_strategy, enable_background_refresh>>

\* the places the generator can be suspended at: its yields, and the await
\* of a collaborator
Yields == {"initialized", "started", "done", "hit", "completed", "failed"}
Awaits == {"awaiting"}

\* the consumer is cancelled, or stops and closes the stream.  At an await
\* CancelledError is raised inside the collaborator's await and, not being
\* an Exception, passes the except clause and leaves the generator; at a
\* yield the generator is closed by GeneratorExit.  Nothing is yielded.
Cancel(r) ==
    /\ run[r].pc \in Yields \cup Awaits
    /\ run' = [run EXCEPT ![r] =
                  IF run[r].pc \in Awaits
                  THEN [@ EXCEPT !.pc = "raised", !.raised = "CancelledError"]
                  ELSE [@ EXCEPT !.pc = "closed", !.raised = "GeneratorExit"]]
    /\ UNCHANGED <<now, notPL, icVars, cache_strategy, enable_background_refresh>>

\* the event loop runs the first step of _schedule_background_refresh: it
\* logs "Scheduling background refresh" and suspends at asyncio.sleep(3600),
\* whose timer is set from the time of this step
StartRefresh(r) ==
    /\ run[r].scheduled
    /\ run[r].wakes_at = NoTime
    /\ run' = [run EXCEPT ![r] = [@ EXCEPT !.wakes_at = now + RefreshDelay]]
    /\ UNCHANGED <<now, notPL, icVars, cache_strategy, enable_background_refresh>>

\* _schedule_background_refresh after its sleep: it logs "Triggering
\* background refresh" and returns
BackgroundRefresh(r) ==
    /\ run[r].scheduled
    /\ run[r].wakes_at # NoTime
    /\ ~run[r].triggered
    /\ now >= run[r].wakes_at
    /\ run' = [run EXCEPT ![r] = [@ EXCEPT !.triggered = TRUE]]
    /\ UNCHANGED <<now, notPL, icVars, cache_strategy, enable_background_refresh>>

TickPL ==
    /\ now < MaxTimePL
    /\ now' = now + 1
    /\ UNCHANGED <<icVars, plVars, notPL>>

InitPLVars ==
    run = [r \in Runs |-> NewRun]

NextPL ==
    \/ TickPL
    \/ \E r \in Runs, force \in BOOLEAN : Begin(r, force)
    \/ \E r \in Runs, unlinks \in BOOLEAN : CheckCache(r, unlinks)
    \/ \E r \in Runs : Invoke(r)
    \/ \E r \in Runs, e \in {NoError} \cup StageErrors : Settle(r, e)
    \/ \E r \in Runs, e \in {NoError} \cup StageErrors : Validate(r, e)
    \/ \E r \in Runs : Advance(r)
    \/ \E r \in Runs, save \in Saves : Store(r, save)
    \/ \E r \in Runs : Close(r)
    \/ \E r \in Runs : Reraise(r)
    \/ \E r \in Runs : StartRefresh(r)
    \/ \E r \in Runs : BackgroundRefresh(r)
    \/ \E r \in Runs : Cancel(r)

----------------------------------------------------------------------------
(* Specifications *)

\* the rate limiter alone: RateLimiter(default_rate=5.0)
InitRL ==
    /\ now = 0
    /\ InitRLVars
    /\ InitTBVars
    /\ InitCBVars
    /\ failure_threshold = 1
    /\ recovery_timeout = 1
    /\ InitRTVars
    /\ InitICVars
    /\ InitPLVars
    /\ cache_strategy = "balanced"
    /\ enable_background_refresh = TRUE
    /\ max_attempts = 1
    /\ exceptions = {"Exception"}
    /\ on_retry = FALSE

SpecRL == InitRL /\ [][NextRL]_vars

\* one bucket of a rate set_rate is called with, used by two threads
InitTB ==
    /\ now = 0
    /\ InitRLVars
    /\ \E rate \in Rates : InitBucket(rate)
    /\ InitCBVars
    /\ failure_threshold = 1
    /\ recovery_timeout = 1
    /\ InitRTVars
    /\ InitICVars
    /\ InitPLVars
    /\ cache_strategy = "balanced"
    /\ enable_background_refresh = TRUE
    /\ max_attempts = 1
    /\ exceptions = {"Exception"}
    /\ on_retry = FALSE

SpecTB == InitTB /\ [][NextTB]_vars

\* one circuit breaker alone: CircuitBreaker(failure_threshold, recovery_timeout,
\* expected_exception=ConnectionError)
InitCB ==
    /\ now = 0
    /\ InitRLVars
    /\ InitTBVars
    /\ InitCBVars
    /\ failure_threshold \in 1..MaxThreshold
    /\ recovery_timeout \in {1, 2}
    /\ InitRTVars
    /\ InitICVars
    /\ InitPLVars
    /\ cache_strategy = "balanced"
    /\ enable_background_refresh = TRUE
    /\ max_attempts = 1
    /\ exceptions = {"Exception"}
    /\ on_retry = FALSE

SpecCB == InitCB /\ [][NextCB]_vars

\* one call of a function decorated with retry_with_backoff(max_attempts,
\* exceptions=..., on_retry=...), base_delay and max_delay at their defaults
InitRT ==
    /\ now = 0
    /\ InitRLVars
    /\ InitTBVars
    /\ InitCBVars
    /\ failure_threshold = 1
    /\ recovery_timeout = 1
    /\ InitRTVars
    /\ InitICVars
    /\ InitPLVars
    /\ cache_strategy = "balanced"
    /\ enable_background_refresh = TRUE
    /\ max_attempts \in 1..MaxAttempts
    /\ exceptions \in {{"Exception"}, {"ConnectionError"}}
    /\ on_retry \in BOOLEAN

SpecRT == InitRT /\ [][NextRT]_vars

\* one call of a function decorated with retry_with_backoff whose body is
\* breaker.call(operation), the breaker being new
InitRB ==
    /\ now = 0
    /\ InitRLVars
    /\ InitTBVars
    /\ InitCBVars
    /\ failure_threshold \in 1..MaxThreshold
    /\ recovery_timeout \in GuardedTimeouts
    /\ InitRTVars
    /\ InitICVars
    /\ InitPLVars
    /\ cache_strategy = "balanced"
    /\ enable_background_refresh = TRUE
    /\ max_attempts \in 1..MaxAttempts
    /\ exceptions \in {{"Exception"}, {"ConnectionError"}}
    /\ on_retry \in BOOLEAN

SpecRB == InitRB /\ [][NextRB]_vars

\* one IntelligentCache over a directory it can write, and its successors
\* after restarts
InitIC ==
    /\ now = 0
    /\ InitRLVars
    /\ InitTBVars
    /\ InitCBVars
    /\ failure_threshold = 1
    /\ recovery_timeout = 1
    /\ InitRTVars
    /\ InitICVars
    /\ InitPLVars
    /\ cache_strategy = "balanced"
    /\ enable_background_refresh = TRUE
    /\ max_attempts = 1
    /\ exceptions = {"Exception"}
    /\ on_retry = FALSE

SpecIC == InitIC /\ [][NextIC]_vars

\* one LiveIntelligencePipeline over an empty cache directory, and two
\* calls of generate_live
InitPL ==
    /\ now = 0
    /\ InitRLVars
    /\ InitTBVars
    /\ InitCBVars
    /\ failure_threshold = 1
    /\ recovery_timeout = 1
    /\ InitRTVars
    /\ InitICVars
    /\ max_attempts = 1
    /\ exceptions = {"Exception"}
    /\ on_retry = FALSE
    /\ InitPLVars
    /\ cache_strategy \in Strategies
    /\ enable_background_refresh \in BOOLEAN

SpecPL == InitPL /\ [][NextPL]_vars

----------------------------------------------------------------------------
(* Claims about the rate limiter, checked under SpecRL *)

LiveBuckets == {heap[i] : i \in 1..Len(heap)}

\* the bucket of domain d as a call on d finds it: the one in the map, or the
\* default-rate bucket _get_bucket constructs
Found(d) == GetBucket(d).heap[GetBucket(d).idx]

\* C1: every bucket holds between 0 and capacity tokens, before and after
\* every acquire, try_acquire and read of available_tokens, whatever time
\* passed between them.
C1_TokenBucketBound ==
    \A b \in LiveBuckets : 0 <= b.tokens /\ b.tokens <= b.capacity * UnitsPerToken

\* a bucket was drained below a whole token and then refilled for a part only
C1_Witness ==
    \E b \in LiveBuckets :
        /\ b.last_update > 0
        /\ b.tokens % UnitsPerToken # 0
        /\ b.tokens < b.capacity * UnitsPerToken

\* C2: acquire only delays: the step on which a caller leaves acquire is a
\* turn of the loop at which the refilled bucket it was given held at least
\* `cost` tokens, and exactly `cost` tokens are taken from that bucket.
C2_AcquireConsumesCost ==
    [][\A c \in Callers :
        (rpc[c] = "waiting" /\ rpc'[c] = "idle") =>
            LET b == heap[rheld[c]]
                avail == Refill(b, now).tokens
                live == Live(heap, buckets, rpc', rheld)
            IN  /\ avail >= rcost[c] * UnitsPerToken
                /\ rheld[c] \in live =>
                      heap'[Rank(rheld[c], live)].tokens
                          = avail - rcost[c] * UnitsPerToken]_vars

\* acquire has returned to every caller, try_acquire was never called, and
\* tokens are missing from the domain's bucket
C2_Witness ==
    /\ tried = NotCalled
    /\ \A c \in Callers : rpc[c] = "idle"
    /\ \E d \in Domains :
          /\ buckets[d] # 0
          /\ heap[buckets[d]].tokens < heap[buckets[d]].capacity * UnitsPerToken

\* C3: try_acquire does not wait: its one consume returns True exactly
\* when the refilled bucket it was given holds at least `cost` tokens; it
\* then takes exactly `cost` tokens, and otherwise leaves the refilled count
\* as it is; the call is over with that step.
C3_TryAcquireExact ==
    [][\A c \in Callers :
        TryConsume(c) =>
            LET avail == Refill(heap[rheld[c]], now).tokens
                enough == avail >= rcost[c] * UnitsPerToken
                live == Live(heap, buckets, rpc', rheld)
            IN  /\ tried' = PyBool(enough)
                /\ rheld[c] \in live =>
                      heap'[Rank(rheld[c], live)].tokens
                          = IF enough THEN avail - rcost[c] * UnitsPerToken ELSE avail
                /\ rpc'[c] = "idle"]_vars

\* try_acquire failed on a bucket that holds a part of a token, and left it
C3_Witness ==
    /\ tried = "False"
    /\ \E d \in Domains :
          /\ buckets[d] # 0
          /\ heap[buckets[d]].tokens > 0
          /\ heap[buckets[d]].tokens < UnitsPerToken

\* C4: set_rate on a domain that has a bucket installs the new rate and
\* capacity and keeps the tokens the bucket held (capped by the new capacity).
C4_SetRateKeepsTokens ==
    [][\A d \in Domains, rate \in Rates :
        (SetRate(d, rate) /\ buckets[d] # 0) =>
            LET old == Refill(heap[buckets[d]], now)
                new == heap'[buckets'[d]]
            IN  /\ new.rate = rate
                /\ new.capacity = IntOfRate(rate)
                /\ new.tokens = Min(old.tokens, new.capacity * UnitsPerToken)]_vars

----------------------------------------------------------------------------
(* Claims about the circuit breaker, checked under SpecCB *)

\* C5: for calls made one after the other that each succeed or fail with an
\* expected exception, failure_count is the number of failures since the last
\* success, and between calls the breaker is OPEN exactly when that number
\* has reached failure_threshold.
C5_BreakerThreshold ==
    (clean /\ Quiescent) =>
        /\ failure_count = consec
        /\ state = "OPEN" <=> consec >= failure_threshold

\* the largest threshold was reached by that many failures in a row
C5_Witness ==
    /\ clean /\ Quiescent
    /\ failure_threshold = MaxThreshold
    /\ consec = failure_threshold
    /\ state = "OPEN"

\* C6: a call that found the breaker OPEN is let through to the operation
\* only when recovery_timeout has passed since the last failure, and after
\* the breaker has let one trial call through it lets no second one through
\* while it is still HALF_OPEN.
C6_SingleTrial ==
    [][/\ \A c \in Callers :
            (cpc[c] = "half_open" /\ cpc'[c] = "func") =>
                now - last_failure_time >= recovery_timeout
       /\ state' = "HALF_OPEN" => trials' <= 1]_vars

\* C7: a call that has ended handed its caller what the wrapped operation
\* returned or raised, unchanged; when the operation was not invoked, it
\* raised the breaker-open rejection.
C7_PropagatesUnchanged ==
    \A c \in Callers :
        cpc[c] = "idle" =>
            \/ cres[c] = cout[c]
            \/ cout[c] = Nothing /\ cres[c] = BreakerOpen

\* one caller got the operation's own expected exception, another the
\* rejection of the open breaker
C7_Witness ==
    \E c, d \in Callers :
        /\ cpc[c] = "idle" /\ cpc[d] = "idle"
        /\ cres[c] \in {Raises(e) : e \in ExpectedErrors} /\ cout[c] = cres[c]
        /\ cres[d] = BreakerOpen

----------------------------------------------------------------------------
(* Claims about the retry wrapper, checked under SpecRT *)

Calls == {i \in 1..Len(wlog) : wlog[i].ev = "call"}
FailedCalls == {i \in Calls : wlog[i].what.kind = "raise"}
\* the exceptions the wrapper is configured to retry on
Selected(e) == "Exception" \in exceptions \/ e.type \in exceptions
CaughtCalls == {i \in FailedCalls : Selected(wlog[i].what)}
Ended == wpc \in {"returned", "raised"}

\* C8: when every call of func raised an exception the wrapper retries on,
\* the wrapper has ended after exactly max_attempts calls, and it raised the
\* exception object of the last call.
C8_RetryBound ==
    (Ended /\ Calls = CaughtCalls) =>
        /\ wpc = "raised"
        /\ Cardinality(Calls) = max_attempts
        /\ wres = [kind |-> "raise", type |-> wres.type, id |-> max_attempts - 1]
        /\ wres = wlog[Len(wlog)].what

\* three attempts all failed with a retried exception
C8_Witness ==
    /\ Ended /\ Calls = CaughtCalls
    /\ max_attempts = MaxAttempts
    /\ Cardinality(Calls) = MaxAttempts

\* C9: a call of func that raised an exception the wrapper does not retry on
\* is the last thing the wrapper did: no callback, no sleep and no call
\* follows it, and the wrapper raised that exception.
C9_NonRetryableSurfaces ==
    \A i \in FailedCalls \ CaughtCalls :
        /\ i = Len(wlog)
        /\ wpc = "raised"
        /\ wres = wlog[i].what

\* the first of several attempts raised an exception that is not retried
C9_Witness ==
    /\ max_attempts > 1
    /\ Len(wlog) = 1
    /\ 1 \in FailedCalls \ CaughtCalls
    /\ wpc = "raised"

\* C10 as stated: with a callback given, every failed call of func is
\* followed at once by a call of the callback, the final one included.
C10_CallbackAfterEveryFailure ==
    on_retry =>
        \A i \in CaughtCalls :
            /\ i < Len(wlog)
            /\ wlog[i + 1].ev = "on_retry"

\* C10 as the code has it: with a callback given, the callback is called for
\* a failed call exactly when the exception is retried on and attempts are
\* left, with that exception and attempt number, and before the sleep that
\* follows; it is not called for the final attempt.
C10_CallbackBeforeEachDelay ==
    /\ \A i \in FailedCalls :
          (on_retry /\ i \in CaughtCalls /\ wlog[i].n < max_attempts - 1)
              <=> (/\ i + 2 <= Len(wlog)
                   /\ wlog[i + 1] = [ev |-> "on_retry", what |-> wlog[i].what, n |-> wlog[i].n]
                   /\ wlog[i + 2].ev = "sleep")
    /\ \A i \in 1..Len(wlog) :
          wlog[i].ev = "on_retry" => i > 1 /\ (i - 1) \in FailedCalls

\* three attempts failed, the callback was called after the first two
C10_Witness ==
    /\ on_retry
    /\ wpc = "raised"
    /\ Cardinality(CaughtCalls) = 3
    /\ Cardinality({i \in 1..Len(wlog) : wlog[i].ev = "on_retry"}) = 2

----------------------------------------------------------------------------
(* Claims about the retry wrapper around a breaker, checked under SpecRB *)

\* the calls of func that the open breaker rejected
Rejections == {i \in Calls : wlog[i].what.type = "OrbitException"}

\* C11 as stated: a rejection by the open breaker is never retried; it is
\* the last thing the wrapper did, no delay and no further attempt follows,
\* and the wrapper raised it.
C11_RejectionNeverRetried ==
    \A i \in Rejections :
        /\ i = Len(wlog)
        /\ wpc = "raised"
        /\ wres = wlog[i].what

\* C11 as the code has it: whether a rejection is retried is decided by the
\* `exceptions` of the wrapper alone.  A rejection the wrapper does not retry
\* on is the last thing the wrapper did and is what it raised; a rejection it
\* retries on (as the default `exceptions` does) is followed, while attempts
\* are left, by the delay of a retry like any other failure.
C11_RejectionRetriedAsConfigured ==
    \A i \in Rejections :
        /\ ~Selected(wlog[i].what) =>
              (i = Len(wlog) /\ wpc = "raised" /\ wres = wlog[i].what)
        /\ (Selected(wlog[i].what) /\ wlog[i].n < max_attempts - 1) =>
              (i < Len(wlog) /\ wlog[i + 1].ev \in {"on_retry", "sleep"})

\* the first attempt failed and opened the breaker, the wrapper slept, and the
\* second attempt was rejected and not retried although attempts were left
C11_Witness ==
    /\ "Exception" \notin exceptions
    /\ max_attempts > 2
    /\ wpc = "raised"
    /\ Len(wlog) \in Rejections
    /\ Len(wlog) > 1

----------------------------------------------------------------------------
(* Claims about the cache, checked under SpecIC *)

\* the entry of key k has reached, or is past, its expires_at
Reached(k) == now >= metadata[k].expires_at
Past(k) == now > metadata[k].expires_at

\* C12 as stated: set(k, v, ttl) stores v with expires_at = now + ttl; a get
\* of a stored key without max_age returns the value while now < expires_at
\* and returns nothing once now >= expires_at.
C12_RoundTrip ==
    [][/\ \A k \in Keys, v \in Values, ttl \in Ttls, q \in Qualities, h \in Hashes :
            Set(k, v, ttl, q, h, Written) =>
                cache'[k] = v /\ metadata'[k].expires_at = now + ttl
       /\ \A k \in DOMAIN metadata :
            Get(k, NoMaxAge) =>
                /\ ~Reached(k) => got' = cache[k]
                /\ Reached(k) => got' = None]_vars

\* C13 as stated: a get with a max_age returns nothing whenever the entry is
\* older than max_age, expired or not; a get without max_age returns nothing
\* exactly when the entry is past its expires_at.
C13_FreshnessOverride ==
    [][\A k \in DOMAIN metadata :
          /\ \A a \in MaxAges \ {NoMaxAge} :
                (Get(k, a) /\ now - metadata[k].created_at > a) => got' = None
          /\ Get(k, NoMaxAge) => (got' = None <=> Past(k))]_vars

\* string p occurs in string k
Contains(p, k) ==
    \E i \in 1..(Len(k) + 1) : \E j \in (i - 1)..Len(k) : SubSeq(k, i, j) = p

\* key k is gone: the dicts do not hold it, its file does not exist, a get
\* returns nothing and a new instance over the directory does not load it
Gone(k) ==
    /\ k \notin DOMAIN cache
    /\ k \notin DOMAIN metadata
    /\ FileName(k) \notin DOMAIN files
    /\ GetResult(k, NoMaxAge).val = None
    /\ k \notin Loadable

\* key k is as it was: entry, metadata and file
Kept(k) ==
    /\ (k \in DOMAIN cache) <=> (k \in DOMAIN cache')
    /\ k \in DOMAIN cache => cache'[k] = cache[k]
    /\ (k \in DOMAIN metadata) <=> (k \in DOMAIN metadata')
    /\ k \in DOMAIN metadata => metadata'[k] = metadata[k]
    /\ (FileName(k) \in DOMAIN files) <=> (FileName(k) \in DOMAIN files')
    /\ FileName(k) \in DOMAIN files => files'[FileName(k)] = files[FileName(k)]

\* C14: invalidate_pattern(p) removes every key the instance holds that
\* contains p, from the dicts and from the directory, and leaves every other
\* key as it was; invalidate(k) removes k, held or not, and leaves every
\* other key as it was.  A removed key is gone: a get returns nothing and a
\* new instance over the same directory does not load it.
C14_InvalidateExact ==
    [][/\ \A p \in Patterns :
            InvalidatePattern(p) =>
                \A k \in Keys :
                    IF k \in DOMAIN cache /\ Contains(p, k) THEN Gone(k)' ELSE Kept(k)
       /\ \A k \in Keys :
            Invalidate(k) =>
                /\ Gone(k)'
                /\ \A other \in Keys \ {k} : Kept(other)]_vars

\* the pattern "b" has just removed the key "ab" and its file, and left "a"
C14_Witness ==
    /\ evicted = {<<"a", "b">>}
    /\ <<"a">> \in DOMAIN cache
    /\ FileName(<<"a">>) \in DOMAIN files
    /\ FileName(<<"a", "b">>) \notin DOMAIN files

\* C15 as stated: a new instance over the same directory holds every entry
\* that was written by set and is not past its expires_at, with the value and
\* the metadata (hit_count included) the writing instance holds; it holds no
\* entry that is past its expires_at.
C15_PersistenceSurvival ==
    [][Restart =>
          /\ \A k \in saved :
                ~Past(k) => /\ k \in DOMAIN cache'
                            /\ cache'[k] = cache[k]
                            /\ metadata'[k] = metadata[k]
          /\ \A k \in Keys :
                (FileName(k) \in DOMAIN files
                    /\ files[FileName(k)] # Truncated
                    /\ now > FromIsoFormat(files[FileName(k)].metadata.expires_at))
                    => k \notin DOMAIN cache']_vars

\* C29: a get that returns nothing changes no hit_count.  A get of an entry
\* past its expires_at returns nothing and removes the entry from the dicts
\* and the directory; a get with a max_age that returns nothing for an entry
\* not past its expires_at (the entry is older than max_age) leaves the
\* entry, its metadata and its file as they were, and a get without max_age
\* then returns the value.  A get that returns a value adds exactly 1 to the
\* hit_count of its key and changes nothing else.
C29_MissEffects ==
    [][\A k \in Keys, a \in MaxAges :
          Get(k, a) =>
              /\ \A other \in Keys \ {k} : Kept(other)
              /\ got' = None =>
                    /\ DOMAIN metadata' \subseteq DOMAIN metadata
                    /\ \A x \in DOMAIN metadata' :
                          metadata'[x].hit_count = metadata[x].hit_count
              /\ (k \in DOMAIN metadata /\ Past(k)) =>
                    got' = None /\ Gone(k)'
              /\ (k \in DOMAIN metadata /\ ~Past(k) /\ got' = None) =>
                    /\ a # NoMaxAge /\ now - metadata[k].created_at > a
                    /\ Kept(k)
                    /\ (GetResult(k, NoMaxAge).val)' = cache[k]
              /\ got' # None =>
                    /\ metadata' = [metadata EXCEPT ![k].hit_count = @ + 1]
                    /\ UNCHANGED <<cache, files>>]_vars

\* every key is held, not past its expires_at, and was hit since it was
\* set, and the last get returned nothing: it was rejected for its age
C29_Witness ==
    /\ got = None
    /\ \A k \in Keys :
          /\ k \in DOMAIN metadata
          /\ k \in DOMAIN cache
          /\ ~Past(k)
          /\ metadata[k].hit_count >= 1
          /\ FileName(k) \in DOMAIN files

----------------------------------------------------------------------------
(* Claims about generate_live, checked under SpecPL *)

TheKey == CacheKey(CompanyName, PipelineName)
Terminal == {"COMPLETED", "FAILED"}
Over(r) == run[r].pc \in {"closed", "raised"}
LastEvent(r) == run[r].events[Len(run[r].events)]

\* C16 as stated: a failure of the cache's file operations never fails a
\* call: when cache.set failed after the last stage, the call yields no
\* FAILED and ends closed with COMPLETED carrying the result; when cache.get
\* failed, the call goes on to the stages as after a miss.
C16_CacheFailureNeverFails ==
    \A r \in Runs :
        /\ run[r].store = "failed" =>
              /\ \A i \in 1..Len(run[r].events) : run[r].events[i].stage # "FAILED"
              /\ Over(r) => /\ run[r].pc = "closed"
                            /\ LastEvent(r).stage = "COMPLETED"
                            /\ LastEvent(r).metadata.result # None
        /\ run[r].read = "failed" => run[r].pc # "raised"

\* the cache holds an entry of the key that is neither expired nor older
\* than the ttl of a caching strategy
Fresh ==
    /\ cache_strategy # "no_cache"
    /\ TheKey \in DOMAIN metadata
    /\ TheKey \in DOMAIN cache
    /\ now <= metadata[TheKey].expires_at
    /\ now - metadata[TheKey].created_at <= GetTtl(cache_strategy)

\* C17: when the cache holds a fresh entry and force_refresh is false, the
\* call yields INITIALIZED and then COMPLETED carrying the cached value, and
\* nothing else; it calls no collaborator and does not call cache.set (the
\* value, the file and the metadata but for hit_count stay as they were).
\* With force_refresh the cache is left alone and the first stage starts.
C17_CacheFirst ==
    [][\A r \in Runs :
          /\ (CheckCache(r, TRUE) /\ ~run[r].force_refresh /\ Fresh) =>
                /\ run'[r].pc = "hit"
                /\ run'[r].events =
                      <<Event("INITIALIZED", 0, None, NoError),
                        Event("COMPLETED", 100, cache[TheKey], NoError)>>
                /\ cache' = cache /\ files' = files
                /\ metadata' = [metadata EXCEPT ![TheKey].hit_count = @ + 1]
          /\ (CheckCache(r, TRUE) /\ run[r].force_refresh) =>
                /\ UNCHANGED <<cache, metadata, files>>
                /\ run'[r].pc = "started"
                /\ run'[r].events =
                      <<Event("INITIALIZED", 0, None, NoError),
                        Event("SCRAPING", 20, None, NoError)>>
          /\ (run[r].read = "hit" /\ Close(r)) =>
                /\ run'[r].pc = "closed"
                /\ Len(run'[r].events) = 2
                /\ run'[r].invoked = <<>>
                /\ run'[r].store = "none"
                /\ UNCHANGED <<cache, metadata, files>>]_vars

\* one call wrote the cache and another, without force_refresh, ended after
\* its two events without calling a collaborator
C17_Witness ==
    \E r, other \in Runs :
        /\ run[other].store = "written"
        /\ ~run[r].force_refresh
        /\ run[r].pc = "closed"
        /\ run[r].read = "hit"
        /\ LastEvent(r).metadata.result = Artifact(other, metadata[TheKey].created_at)

\* C18 as stated: when the collaborator of a stage raised, no collaborator of
\* a later stage is called, the call yields a FAILED event that carries the
\* error, its kind and the stage that failed, and cache.set is not called.
C18_FailurePath ==
    \A r \in Runs :
        run[r].failed_at > 0 =>
            /\ run[r].invoked = SubSeq(Collaborators, 1, run[r].failed_at)
            /\ run[r].store = "none"
            /\ LastEvent(r).metadata.error_type = run[r].raised
            /\ Stages[run[r].failed_at] \in
                  {LastEvent(r).stage, LastEvent(r).metadata.error_type}

\* C19 as stated: a call that is over has closed, not raised, and the last
\* item it yielded is COMPLETED with the result or FAILED with the error; no
\* item before the last is COMPLETED or FAILED.
C19_TerminalEvent ==
    \A r \in Runs :
        /\ Over(r) =>
              /\ run[r].pc = "closed"
              /\ run[r].events # <<>>
              /\ \/ /\ LastEvent(r).stage = "COMPLETED"
                    /\ LastEvent(r).metadata.result # None
                 \/ /\ LastEvent(r).stage = "FAILED"
                    /\ LastEvent(r).metadata.error_type # NoError
        /\ \A i \in 1..(Len(run[r].events) - 1) : run[r].events[i].stage \notin Terminal

\* the place of a stage in the order of the stages
StageRank(stage) ==
    IF stage = "INITIALIZED" THEN 0
    ELSE IF stage \in Terminal THEN Len(Stages) + 1
    ELSE CHOOSE st \in 1..Len(Stages) : Stages[st] = stage

\* C20 as stated: the items a call yields are in the order of the stages,
\* FAILED or COMPLETED last, and their progress_pct never decreases, the
\* last item included.
C20_ProgressOrder ==
    \A r \in Runs :
        \A i, j \in 1..Len(run[r].events) :
            i < j =>
                /\ StageRank(run[r].events[i].stage) <= StageRank(run[r].events[j].stage)
                /\ run[r].events[i].progress_pct <= run[r].events[j].progress_pct

\* the ten items of a call that went through every stage and built `result`
TenEvents(result) ==
    <<Event("INITIALIZED", 0, None, NoError),
      Event("SCRAPING", 20, None, NoError), Event("SCRAPING", 40, None, NoError),
      Event("EXTRACTING", 50, None, NoError), Event("EXTRACTING", 70, None, NoError),
      Event("VALIDATING", 75, None, NoError), Event("VALIDATING", 80, None, NoError),
      Event("GENERATING", 85, None, NoError), Event("GENERATING", 95, None, NoError),
      Event("COMPLETED", 100, result, NoError)>>

\* C21: a call whose four collaborators returned and whose cache.set wrote
\* the file has yielded exactly the ten items INITIALIZED(0), SCRAPING(20),
\* SCRAPING(40), EXTRACTING(50), EXTRACTING(70), VALIDATING(75),
\* VALIDATING(80), GENERATING(85), GENERATING(95), COMPLETED(100); when
\* COMPLETED is yielded the cache already holds the result, in memory and in
\* the file, and a cache read for the key returns the result COMPLETED carries.
\* No call yields COMPLETED after the stages without the cache written.
C21_EndToEnd ==
    [][\A r \in Runs :
          /\ Store(r, Written) =>
                /\ run'[r].events = TenEvents(Artifact(r, now))
                /\ run'[r].invoked = Collaborators
                /\ TheKey \in DOMAIN cache'
                /\ cache'[TheKey] = Artifact(r, now)
                /\ FileName(TheKey) \in DOMAIN files'
                /\ JsonLoad(files'[FileName(TheKey)].value) = Artifact(r, now)
                /\ (GetResult(TheKey, GetTtl(cache_strategy)).val)' = Artifact(r, now)
          /\ (run'[r].events # <<>> /\ LastEvent(r)'.stage = "COMPLETED"
                /\ run'[r].read # "hit") => run'[r].store = "written"]_vars

\* a call over a cold cache has yielded its ten items and is closed
C21_Witness ==
    \E r \in Runs :
        /\ run[r].pc = "closed"
        /\ run[r].read = "miss"
        /\ run[r].store = "written"
        /\ Len(run[r].events) = 10
        /\ cache[TheKey] = LastEvent(r).metadata.result

\* C22: every run that completes through the stages schedules, at the yield
\* of COMPLETED already (whether or not the consumer resumes the stream), a
\* background task due one cache TTL later, and when that task wakes it
\* starts a run with force_refresh for the same key
C22_RefreshAhead ==
    [][\A r \in Runs :
          /\ Store(r, Written) =>
                /\ run'[r].scheduled
                /\ run'[r].wakes_at = now + GetTtl(cache_strategy)
          /\ BackgroundRefresh(r) =>
                \E q \in Runs : /\ run[q].pc = "new"
                                /\ run'[q].pc = "initialized"
                                /\ run'[q].force_refresh]_vars

\* C23: when a run in flight is cancelled, the cancellation takes effect at
\* a stage boundary and not inside the call of a collaborator, no further
\* collaborator is called and the cache is not written, and the run ends
\* with a terminal item of a "cancelled" stage that is not FAILED
C23_Cancellation ==
    [][\A r \in Runs :
          Cancel(r) =>
              /\ run[r].pc \notin Awaits
              /\ run'[r].invoked = run[r].invoked
              /\ run'[r].store = run[r].store
              /\ UNCHANGED <<cache, metadata, files>>
              /\ Over(r)'
              /\ run'[r].events # <<>>
              /\ LastEvent(r)'.stage = "CANCELLED"]_vars

\* the value and the metadata the dicts hold for the key come from one
\* cache.set: the metadata carries the hash of the value
Whole ==
    TheKey \in DOMAIN cache =>
        /\ TheKey \in DOMAIN metadata
        /\ metadata[TheKey].source_hash = HashData(cache[TheKey])

\* C26: calls for the same key are not merged: each call that went through
\* the stages writes the cache, and after its write the entry (value,
\* metadata and file) is the one it wrote, whatever another call wrote
\* before; the entry in memory is always whole, and a call that reads the
\* cache gets the value the dict holds, with the metadata of the same write
C26_NoSingleFlight ==
    [][\A r \in Runs :
          /\ Store(r, Written) =>
                /\ TheKey \in DOMAIN cache'
                /\ cache'[TheKey] = Artifact(r, now)
                /\ metadata'[TheKey].created_at = now
                /\ FileName(TheKey) \in DOMAIN files'
                /\ files'[FileName(TheKey)] = FileContent(cache', metadata', TheKey)
          /\ Whole'
          /\ (CheckCache(r, TRUE) /\ run'[r].read = "hit") =>
                /\ LastEvent(r)'.metadata.result = cache[TheKey]
                /\ metadata[TheKey].source_hash = HashData(cache[TheKey])]_vars

\* two calls missed the cache, both called the four collaborators and
\* wrote the cache; the entry is the one of the call that wrote last
C26_Witness ==
    \E r, o \in Runs :
        /\ r # o
        /\ run[r].read = "miss" /\ run[o].read = "miss"
        /\ run[r].invoked = Collaborators /\ run[o].invoked = Collaborators
        /\ run[r].store = "written" /\ run[o].store = "written"
        /\ LastEvent(o).metadata.result = Artifact(o, 0)
        /\ LastEvent(r).metadata.result = Artifact(r, 1)
        /\ cache[TheKey] = Artifact(r, 1)

----------------------------------------------------------------------------
(* Further claims about CircuitBreaker, checked under SpecCB *)

\* C24: state only changes from CLOSED to OPEN with the threshold reached,
\* from OPEN to HALF_OPEN on a call that arrives with the recovery timeout
\* elapsed, from HALF_OPEN to CLOSED with failure_count reset to 0, and from
\* HALF_OPEN to OPEN with last_failure_time reset, whatever the interleaving
\* of the callers
C24_Transitions ==
    [][state' # state =>
          \/ /\ state = "CLOSED" /\ state' = "OPEN"
             /\ failure_count' >= failure_threshold
          \/ /\ state = "OPEN" /\ state' = "HALF_OPEN"
             /\ (last_failure_time = NoTime
                    \/ now - last_failure_time >= recovery_timeout)
             /\ \E c \in Callers : cpc[c] = "half_open" /\ cpc'[c] = "func"
          \/ /\ state = "HALF_OPEN" /\ state' = "CLOSED"
             /\ failure_count' = 0
          \/ /\ state = "HALF_OPEN" /\ state' = "OPEN"
             /\ last_failure_time' = now]_vars

----------------------------------------------------------------------------
(* Claims about one bucket used by several threads, checked under SpecTB *)

\* C25: whatever the interleaving of the threads inside acquire and
\* try_acquire on one bucket, the tokens granted never exceed the tokens the
\* bucket started with plus those refilled, the token count is never
\* negative, at most one thread is between taking and releasing the lock,
\* and a thread that sleeps in wait_for_token does not hold the lock
C25_BucketLock ==
    /\ granted <= tb.capacity * UnitsPerToken + refilled
    /\ tb.tokens >= 0
    /\ Cardinality({c \in Callers : tpc[c] \in {"refill", "check", "take", "exit"}}) <= 1
    /\ \A c \in Callers : tpc[c] \in {"sleep", "idle", "enter"} => lock # c

\* one thread sleeps in wait_for_token while the other holds the lock, after
\* tokens were granted and refilled
C25_Witness ==
    \E c, o \in Callers :
        /\ tpc[c] = "sleep"
        /\ lock = o
        /\ tpc[o] = "take"
        /\ granted > 0
        /\ refilled > 0

\* some caller's last call raised an exception the breaker does not expect
UnexpectedSeen ==
    \E d \in Callers : cpc[d] = "idle" /\ cres[d] \in {Raises(e) : e \in OtherErrors}

\* C30: an exception of the wrapped operation that is not of
\* expected_exception reaches the caller unchanged and leaves failure_count
\* and state as they were; and when the one trial call of a HALF_OPEN
\* breaker has ended with such an exception, the breaker, if still
\* HALF_OPEN, does not let the next call through to the operation
C30_UnexpectedError ==
    [][\A c \in Callers :
          /\ \A out \in Outcomes :
                FuncRaisesOther(c, out) =>
                    /\ cres'[c] = out
                    /\ failure_count' = failure_count
                    /\ state' = state
          /\ (state = "HALF_OPEN" /\ Quiescent /\ trials = 1 /\ UnexpectedSeen
                /\ CallEnter(c)) => cpc'[c] # "func"]_vars

----------------------------------------------------------------------------
(* Further claims about the rate limiter, checked under SpecRL *)

\* the time after which a bucket of the lowest rate has refilled one token
TokenTime == UnitsPerToken

\* C27: a caller inside acquire(domain, 1) on a bucket of positive rate is
\* never stuck for good: once enough time has passed, the bucket it waits on
\* holds the token it asks for, so that its next turn of the loop returns
C27_AcquireReturns ==
    \A c \in Callers :
        (rpc[c] = "waiting" /\ rcost[c] = 1 /\ heap[rheld[c]].rate > 0) =>
            Consume(heap[rheld[c]], 1, now + TokenTime).ok

\* C28: every token granted to a caller of acquire is taken from the bucket
\* the map holds for the domain at that time: after set_rate replaced the
\* bucket, also a caller that was already waiting consumes from the new one
C28_GrantFromCurrentBucket ==
    [][\A c \in Callers, d \in Domains :
          (WaitForToken(c) /\ rpc'[c] = "idle") => rheld[c] = buckets[d]]_vars

============================================================================
